---- MODULE Spec2Model ----
(***************************************************************************)
(* State-machine model of the StudyQuest edge function (Hono server over a *)
(* key-value store): signup, routine, study records, goals, tasks and the  *)
(* spaced-repetition review routes.                                        *)
(*                                                                         *)
(* Time is counted in seconds since the epoch (the server counts           *)
(* milliseconds; one day is 86400000 ms = 86400 s).  An ISO-8601 string    *)
(* produced by Date.toISOString() is modelled as the pair                  *)
(* <<date part, time-of-day part>>, compared lexicographically as the      *)
(* server compares the strings.                                            *)
(*                                                                         *)
(* Profiles keep the fields the routes read or write (xp, level, streak,   *)
(* lastStudyDate, onboardingComplete); stored records keep userId,         *)
(* createdAt and the fields the routes set.                                *)
(*                                                                         *)
(* Spec composes every route.  The properties are checked under the        *)
(* specifications of one group of routes each (SpecReview, SpecStudy,      *)
(* SpecGoal, SpecTask, SpecSchedule, SpecRoutine, SpecById): a route reads *)
(* and writes only the kv keys of its own group and the caller's profile.  *)
(* SpecRace serves two requests of one user at a time, each handler split  *)
(* where it awaits the profile; SpecDashboard is the client's rendering of *)
(* a fetched profile.                                                      *)
(***************************************************************************)
EXTENDS Integers, Sequences, FiniteSets, TLC

VARIABLES
  now,           \* Date.now()
  authUsers,     \* the users the auth service knows (created by signup)
  user_profile,  \* kv values under user_profile:<userId>
  user_routine,  \* kv values under user_routine:<userId>
  study_record,  \* kv values under study_record:<userId>:<ms>
  goal,          \* kv values under goal:<userId>:<ms>
  task,          \* kv values under task:<userId>:<ms>
  review,        \* kv values under review:<userId>:<ms>
  resp,          \* the last request served (op, user, path and body
                 \* parameters) with the status and body of its response
  inflight,      \* the requests that have read the caller's profile and
                 \* have not yet written it back (one per connection)
  dashboard,     \* what the Dashboard component last rendered
  document,      \* kv values under document:<userId>:<ms>
  session,       \* App: the session ([user |-> id]), or null
  appProfile,    \* App: profile, the profile last received, or null
  loading,       \* App: the loading flag
  fetches,       \* App: the GET /profile requests not yet answered
  wizard,        \* Onboarding: step and routineData
  goals,         \* GoalsSectionFixed: the goals list (saved to localStorage)
  tasks,         \* TasksSection: the tasks list
  localStorage   \* TasksSection: the task-<id> entries of localStorage

\* the state of the client's components
clientVars == <<dashboard, session, appProfile, loading, fetches, wizard, goals,
                tasks, localStorage>>

vars == <<now, authUsers, user_profile, user_routine, study_record,
          goal, task, review, resp, inflight, document, clientVars>>

----------------------------------------------------------------------------
(* Bounds of the model *)

\* first calendar day (days since the epoch) on which the server runs
StartDay == 40
\* the clock advances over this many days
MaxDays == 4
\* at most this many review schedules / goals / tasks / study records stored
MaxReviews == 1
MaxGoals == 1
MaxTasks == 1
MaxRecords == 3
\* completedReviews grows at most to this length
MaxCompleted == 2
\* no xp is awarded to a profile whose xp is outside -MaxXp .. MaxXp
MaxXp == 100

----------------------------------------------------------------------------
(* Dates *)

\* 86400000 ms: the length of a day used by every date computation
\* the most goals in the list of GoalsSectionFixed
MaxQuickGoals == 2

\* the most documents the store holds
MaxDocuments == 1

\* the largest xp of a profile handed to the Dashboard
MaxLevelXp == 2500

DaySec == 86400

HalfDay == DaySec \div 2

T0 == StartDay * DaySec

Users == {"u1", "u2"}

\* JavaScript null / undefined
Null == <<>>

\* Date.prototype.toISOString(): "YYYY-MM-DD" "T" "HH:mm:ss.sssZ"
toISOString(t) == <<t \div DaySec, t % DaySec>>

\* new Date(isoString).getTime()
getTime(iso) == iso[1] * DaySec + iso[2]

\* iso.split('T')[0]: the calendar-date prefix of the string
DatePart(iso) == SubSeq(iso, 1, 1)

\* mutant: compares the calendar dates only
IsoLeq_DateOnly(a, b) == a[1] <= b[1]

\* a <= b on ISO strings (lexicographic string comparison)
IsoLeq(a, b) == \/ a[1] < b[1]
                \/ a[1] = b[1] /\ a[2] <= b[2]

\* {...a, ...b}
Spread(a, b) ==
  [k \in DOMAIN a \cup DOMAIN b |-> IF k \in DOMAIN b THEN b[k] ELSE a[k]]

\* Array.prototype.includes
Includes(seq, x) == \E i \in 1..Len(seq) : seq[i] = x

\* storage ids `${userId}:${Date.now()}`
NewId(u) == <<u, now>>

ClockValues == {T0 + k * HalfDay : k \in 0..(2 * MaxDays)}

\* an id the server never generated
NoSuchId == <<"u1", 0>>

\* the ids a client may put in a request path: a stored one or an unknown one
RequestIds(store) == DOMAIN store \cup {NoSuchId}

\* kv.getByPrefix(`<kind>:${userId}:`)
getByPrefix(store, u) == {k \in DOMAIN store : k[1] = u}

\* kv.set(key, value)
kvSet(store, k, v) == [x \in DOMAIN store \cup {k} |-> IF x = k THEN v ELSE store[x]]

\* kv.del(key)
kvDel(store, k) == [x \in DOMAIN store \ {k} |-> store[x]]

----------------------------------------------------------------------------
(* Profiles *)
\* mutant: checks only that the record exists
NotFound_ExistsOnly(store, id, u) == id \notin DOMAIN store

\* if (!record || record.userId !== userId): no record under the id, or a
\* record of another user
NotFound(store, id, u) == id \notin DOMAIN store \/ store[id].userId # u

\* the profile written by signup
InitialProfile ==
  [xp |-> 0, level |-> 1, streak |-> 0, lastStudyDate |-> Null,
   onboardingComplete |-> FALSE]

\* the connections that can carry a request each at the same time
Connections == {"c1", "c2"}

\* profile?.xp || 0
XpOf(profile) == IF profile = Null THEN 0 ELSE profile.xp

\* profile?.streak || 0
StreakOf(profile) == IF profile = Null THEN 0 ELSE profile.streak

\* profile?.lastStudyDate?.split('T')[0]
LastStudyDay(profile) ==
  IF profile = Null \/ profile.lastStudyDate = Null THEN Null
  ELSE DatePart(profile.lastStudyDate)

\* mutant: an award also counts as a study day
AwardXp_Studied(profile, delta) ==
  Spread(profile, [xp |-> XpOf(profile) + delta,
                   streak |-> StreakOf(profile) + 1])

\* { ...profile, xp: (profile?.xp || 0) + delta }
AwardXp(profile, delta) == Spread(profile, [xp |-> XpOf(profile) + delta])

InXpRange(x) == -MaxXp <= x /\ x <= MaxXp

\* mutant: accepts every token
verifyAuth_AcceptAll(u) == TRUE

\* verifyAuth: the token names a user the auth service knows
verifyAuth(u) == u \in authUsers

\* if (error) return c.json({ error }, 401)
Unauthorized(op, u) ==
  /\ resp' = [op |-> op, user |-> u, status |-> 401]
  /\ UNCHANGED <<inflight, clientVars, document, now, authUsers, user_profile, user_routine, study_record,
                 goal, task, review>>

----------------------------------------------------------------------------
(* Spaced repetition *)

\* the day offsets of the five reviews
ReviewOffsets == <<1, 3, 7, 14, 30>>

\* mutant: the second review two days after the study date instead of three
generateReviewSchedule_SecondAtTwo(t) ==
  [i \in 1..Len(ReviewOffsets) |->
     toISOString(t + (IF i = 2 THEN 2 ELSE ReviewOffsets[i]) * DaySec)]

\* the reviews array built by POST /review-schedule from studyDate.getTime()
generateReviewSchedule(t) ==
  [i \in 1..Len(ReviewOffsets) |-> toISOString(t + ReviewOffsets[i] * DaySec)]

\* request bodies: studiedAt absent, a valid ISO string, or an unparseable one
StudiedAtInputs ==
  {[kind |-> "absent", iso |-> Null], [kind |-> "invalid", iso |-> Null]}
  \cup {[kind |-> "iso", iso |-> toISOString(t)] :
          t \in {T0 - 30 * DaySec, T0 - HalfDay}}

\* request bodies whose studiedAt is a string that is no timestamp: a
\* non-empty one ("invalid"), or the empty string, which is falsy ("empty")
UnparseableStudiedAt ==
  {[kind |-> "invalid", iso |-> Null], [kind |-> "empty", iso |-> Null]}

\* new Date(studiedAt || Date.now()) is an Invalid Date (getTime() is NaN)
IsInvalidDate(studiedAt) == studiedAt.kind = "invalid"

\* new Date(studiedAt || Date.now()).getTime() of a valid date
StudyDate(studiedAt) ==
  IF studiedAt.kind = "iso" THEN getTime(studiedAt.iso) ELSE now

PostReviewSchedule(u, studiedAt) ==
  IF ~verifyAuth(u) THEN Unauthorized("review-schedule", u) ELSE
  /\ LET scheduleId == NewId(u)
         studyDate == StudyDate(studiedAt)
     IN IF IsInvalidDate(studiedAt)
        THEN \* toISOString() of an Invalid Date throws: the catch answers 500
             /\ resp' = [op |-> "review-schedule", user |-> u, status |-> 500,
                         studiedAt |-> studiedAt.kind]
             /\ UNCHANGED review
        ELSE /\ scheduleId \in DOMAIN review \/ Cardinality(DOMAIN review) < MaxReviews
             /\ review' = kvSet(review, scheduleId,
                  [userId |-> u,
                   studiedAt |-> toISOString(studyDate),
                   reviews |-> generateReviewSchedule(studyDate),
                   completedReviews |-> <<>>,
                   createdAt |-> toISOString(now)])
             /\ resp' = [op |-> "review-schedule", user |-> u, status |-> 200,
                         studiedAt |-> studiedAt.kind,
                         scheduleId |-> scheduleId,
                         reviews |-> generateReviewSchedule(studyDate)]
  /\ UNCHANGED <<inflight, clientVars, document, now, authUsers, user_profile, user_routine, study_record, goal, task>>

\* review.reviews.find(r => !review.completedReviews.includes(r) && r <= now)
NextDue(rev, nowIso) ==
  LET due == {i \in 1..Len(rev.reviews) :
                /\ ~Includes(rev.completedReviews, rev.reviews[i])
                /\ IsoLeq(rev.reviews[i], nowIso)}
  IN IF due = {} THEN Null
     ELSE rev.reviews[CHOOSE i \in due : \A j \in due : i <= j]

\* the .map(...).filter(Boolean) of GET /reviews-due
selectDueReviews(schedules, nowIso) ==
  {Spread(rev, [nextDue |-> NextDue(rev, nowIso)]) :
     rev \in {r \in schedules : NextDue(r, nowIso) # Null}}

GetReviewsDue(u) ==
  IF ~verifyAuth(u) THEN Unauthorized("reviews-due", u) ELSE
  /\ LET allReviews == {review[k] : k \in getByPrefix(review, u)}
     IN resp' = [op |-> "reviews-due", user |-> u, status |-> 200,
                 reviews |-> selectDueReviews(allReviews, toISOString(now))]
  /\ UNCHANGED <<inflight, clientVars, document, now, authUsers, user_profile, user_routine, study_record,
                 goal, task, review>>

\* the reviewDate values a client may send for schedule id: one of its first
\* two review dates, or the current instant
ReviewDateInputs(id) ==
  {toISOString(now)} \cup
  (IF id \in DOMAIN review
   THEN {review[id].reviews[i] : i \in 1..2} ELSE {})

\* mutant: pushes reviewDate only when it is not there yet
PushCompleted_Dedup(rev, reviewDate) ==
  IF Includes(rev.completedReviews, reviewDate) THEN rev
  ELSE Spread(rev, [completedReviews |-> Append(rev.completedReviews, reviewDate)])

\* review.completedReviews.push(reviewDate)
PushCompleted(rev, reviewDate) ==
  Spread(rev, [completedReviews |-> Append(rev.completedReviews, reviewDate)])

PostReviewComplete(u, reviewId, reviewDate) ==
  IF ~verifyAuth(u) THEN Unauthorized("review-complete", u) ELSE
  /\ IF NotFound(review, reviewId, u)
     THEN /\ resp' = [op |-> "review-complete", user |-> u, status |-> 404,
                      reviewId |-> reviewId]
          /\ UNCHANGED <<review, user_profile>>
     ELSE /\ Len(review[reviewId].completedReviews) < MaxCompleted
          /\ InXpRange(XpOf(user_profile[u]))
          /\ review' = kvSet(review, reviewId,
               PushCompleted(review[reviewId], reviewDate))
          /\ user_profile' = [user_profile EXCEPT ![u] = AwardXp(@, 15)]
          /\ resp' = [op |-> "review-complete", user |-> u, status |-> 200,
                      reviewId |-> reviewId, reviewDate |-> reviewDate]
  /\ UNCHANGED <<inflight, clientVars, document, now, authUsers, user_routine, study_record, goal, task>>

----------------------------------------------------------------------------
(* Study records *)

\* request bodies of POST /study-record: duration in minutes, or no duration
StudyBodies == {<<>>} \cup {[duration |-> d] : d \in {45, -20}}

\* recordData.duration || 0
DurationOf(recordData) ==
  IF "duration" \in DOMAIN recordData THEN recordData.duration ELSE 0

\* mutant: 10 XP per 10 minutes
XpForDuration_PerTen(recordData) == (DurationOf(recordData) \div 10) * 10

\* Math.floor((recordData.duration || 0) / 15) * 10
XpForDuration(recordData) == (DurationOf(recordData) \div 15) * 10

\* mutant: any earlier study date counts as yesterday (the streak never resets)
NewStreak_NoReset(profile, t) ==
  IF LastStudyDay(profile) = DatePart(toISOString(t)) THEN StreakOf(profile)
  ELSE IF LastStudyDay(profile) = Null THEN 1
  ELSE StreakOf(profile) + 1

\* mutant: compares the whole ISO strings, without split('T')[0]
NewStreak_NoSplit(profile, t) ==
  LET lastStudyDate == IF profile = Null THEN Null ELSE profile.lastStudyDate
  IN IF lastStudyDate = toISOString(t) THEN StreakOf(profile)
     ELSE IF lastStudyDate = toISOString(t - DaySec) THEN StreakOf(profile) + 1
     ELSE 1

\* the streak branch of POST /study-record
NewStreak(profile, t) ==
  LET today == DatePart(toISOString(t))
      lastStudyDate == LastStudyDay(profile)
  IN IF lastStudyDate = today THEN StreakOf(profile)
     ELSE IF lastStudyDate = DatePart(toISOString(t - DaySec))
          THEN StreakOf(profile) + 1
          ELSE 1

PostStudyRecord(u, recordData) ==
  IF ~verifyAuth(u) THEN Unauthorized("study-record", u) ELSE
  /\ LET recordId == NewId(u)
         profile == user_profile[u]
         newStreak == NewStreak(profile, now)
         xpGained == XpForDuration(recordData)
     IN /\ recordId \in DOMAIN study_record
           \/ Cardinality(DOMAIN study_record) < MaxRecords
        /\ InXpRange(XpOf(profile))
        /\ study_record' = kvSet(study_record, recordId,
             Spread(Spread([userId |-> u], recordData),
                    [createdAt |-> toISOString(now)]))
        /\ user_profile' = [user_profile EXCEPT ![u] =
             Spread(profile, [xp |-> XpOf(profile) + xpGained,
                              streak |-> newStreak,
                              lastStudyDate |-> toISOString(now)])]
        /\ resp' = [op |-> "study-record", user |-> u, status |-> 200,
                    recordData |-> recordData, recordId |-> recordId, xpGained |-> xpGained,
                    streak |-> newStreak]
  /\ UNCHANGED <<inflight, clientVars, document, now, authUsers, user_routine, goal, task, review>>

----------------------------------------------------------------------------
(* Onboarding / routine *)

PostRoutine(u) ==
  IF ~verifyAuth(u) THEN Unauthorized("routine", u) ELSE
  /\ InXpRange(XpOf(user_profile[u]))
  /\ user_routine' = [user_routine EXCEPT ![u] =
       [createdAt |-> toISOString(now), updatedAt |-> toISOString(now)]]
  /\ user_profile' = [user_profile EXCEPT ![u] =
       Spread(@, [onboardingComplete |-> TRUE, xp |-> XpOf(@) + 50])]
  /\ resp' = [op |-> "routine", user |-> u, status |-> 200]
  /\ UNCHANGED <<inflight, clientVars, document, now, authUsers, study_record, goal, task, review>>

----------------------------------------------------------------------------
(* Dashboard (client) *)

\* a % b of JavaScript for b > 0: the remainder has the sign of a
JsRem(a, b) == IF a >= 0 THEN a % b ELSE -((-a) % b)

\* mutant: shows the level stored in the profile
level_Stored(profile) == profile.level

\* const level = Math.floor(profile.xp / 1000) + 1
level(profile) == (profile.xp \div 1000) + 1

\* const xpForNextLevel = level * 1000
xpForNextLevel(profile) == level(profile) * 1000

\* const xpProgress = (profile.xp % 1000) / 1000 * 100: a percentage, kept as
\* the fraction <<numerator, denominator>>
xpProgress(profile) == <<JsRem(profile.xp, 1000) * 100, 1000>>

\* App renders Dashboard with the profile it fetched once onboarding is
\* complete; Dashboard derives what it shows from profile.xp
Dashboard(u) ==
  /\ verifyAuth(u)
  /\ user_profile[u] # Null
  /\ user_profile[u].onboardingComplete
  /\ dashboard' = [user |-> u, xp |-> user_profile[u].xp,
                   level |-> level(user_profile[u]),
                   xpForNextLevel |-> xpForNextLevel(user_profile[u]),
                   xpProgress |-> xpProgress(user_profile[u])]
  /\ UNCHANGED <<now, authUsers, user_profile, user_routine, study_record,
                 goal, task, review, resp, inflight, document,
                 session, appProfile, loading, fetches, wizard, goals, tasks,
                 localStorage>>

----------------------------------------------------------------------------
(* Goals *)

\* request bodies of POST /goal
GoalBodies == {[title |-> "a"]}

\* request bodies of PUT /goal/:id
GoalUpdates ==
  {[progress |-> 50], [progress |-> 100, completed |-> TRUE],
   [completed |-> TRUE], [completed |-> FALSE]}

\* updates.completed is truthy
SetsCompleted(updates) ==
  "completed" \in DOMAIN updates /\ updates.completed = TRUE

\* mutant: looks at the new state only
CompletesNow_NewStateOnly(stored, updates) == SetsCompleted(updates)

\* mutant: looks at the merged record, if (updated.completed)
CompletesNow_Merged(stored, updates) ==
  Spread(stored, updates).completed = TRUE

\* if (updates.completed && !stored.completed), of PUT /goal/:id and PUT /task/:id
CompletesNow(stored, updates) == SetsCompleted(updates) /\ ~stored.completed

PostGoal(u, goalData) ==
  IF ~verifyAuth(u) THEN Unauthorized("goal", u) ELSE
  /\ LET goalId == NewId(u)
     IN /\ goalId \in DOMAIN goal \/ Cardinality(DOMAIN goal) < MaxGoals
        /\ goal' = kvSet(goal, goalId,
             Spread(Spread([userId |-> u], goalData),
                    [progress |-> 0, completed |-> FALSE,
                     createdAt |-> toISOString(now)]))
        /\ resp' = [op |-> "goal", user |-> u, status |-> 200, goalId |-> goalId]
  /\ UNCHANGED <<inflight, clientVars, document, now, authUsers, user_profile, user_routine, study_record,
                 task, review>>

PutGoal(u, goalId, updates) ==
  IF ~verifyAuth(u) THEN Unauthorized("goal-update", u) ELSE
  /\ IF NotFound(goal, goalId, u)
     THEN /\ resp' = [op |-> "goal-update", user |-> u, status |-> 404,
                      goalId |-> goalId]
          /\ UNCHANGED <<goal, user_profile>>
     ELSE LET updatedGoal == Spread(goal[goalId], updates)
          IN /\ goal' = kvSet(goal, goalId, updatedGoal)
             /\ IF CompletesNow(goal[goalId], updates)
                THEN /\ InXpRange(XpOf(user_profile[u]))
                     /\ user_profile' =
                          [user_profile EXCEPT ![u] = AwardXp(@, 100)]
                ELSE UNCHANGED user_profile
             /\ resp' = [op |-> "goal-update", user |-> u, status |-> 200,
                         goalId |-> goalId,
                         goal |-> updatedGoal]
  /\ UNCHANGED <<inflight, clientVars, document, now, authUsers, user_routine, study_record, task, review>>

----------------------------------------------------------------------------
(* Tasks *)

\* request bodies of POST /task
TaskBodies == {[title |-> "a"]}

\* request bodies of PUT /task/:id: {}, { completed: true }, { completed: false }
TaskUpdates == {<<>>, [completed |-> TRUE], [completed |-> FALSE]}

PostTask(u, taskData) ==
  IF ~verifyAuth(u) THEN Unauthorized("task", u) ELSE
  /\ LET taskId == NewId(u)
     IN /\ taskId \in DOMAIN task \/ Cardinality(DOMAIN task) < MaxTasks
        /\ task' = kvSet(task, taskId,
             Spread(Spread([userId |-> u], taskData),
                    [completed |-> FALSE, createdAt |-> toISOString(now)]))
        /\ resp' = [op |-> "task", user |-> u, status |-> 200, taskId |-> taskId]
  /\ UNCHANGED <<inflight, clientVars, document, now, authUsers, user_profile, user_routine, study_record,
                 goal, review>>

PutTask(u, taskId, updates) ==
  IF ~verifyAuth(u) THEN Unauthorized("task-update", u) ELSE
  /\ IF NotFound(task, taskId, u)
     THEN /\ resp' = [op |-> "task-update", user |-> u, status |-> 404,
                      taskId |-> taskId]
          /\ UNCHANGED <<task, user_profile>>
     ELSE LET updatedTask == Spread(task[taskId], updates)
          IN /\ task' = kvSet(task, taskId, updatedTask)
             /\ IF CompletesNow(task[taskId], updates)
                THEN /\ InXpRange(XpOf(user_profile[u]))
                     /\ user_profile' =
                          [user_profile EXCEPT ![u] = AwardXp(@, 20)]
                ELSE UNCHANGED user_profile
             /\ resp' = [op |-> "task-update", user |-> u, status |-> 200,
                         taskId |-> taskId,
                         task |-> updatedTask]
  /\ UNCHANGED <<inflight, clientVars, document, now, authUsers, user_routine, study_record, goal, review>>

DeleteTask(u, taskId) ==
  IF ~verifyAuth(u) THEN Unauthorized("task-delete", u) ELSE
  /\ IF NotFound(task, taskId, u)
     THEN /\ resp' = [op |-> "task-delete", user |-> u, status |-> 404,
                      taskId |-> taskId]
          /\ UNCHANGED task
     ELSE /\ task' = kvDel(task, taskId)
          /\ resp' = [op |-> "task-delete", user |-> u, status |-> 200,
                      taskId |-> taskId]
  /\ UNCHANGED <<inflight, clientVars, document, now, authUsers, user_profile, user_routine, study_record,
                 goal, review>>

----------------------------------------------------------------------------
(* Overlapping requests: the handlers run up to an await, and another request
   may run between `await kv.get(user_profile)` and `await kv.set(user_profile)` *)

\* mutant: adds the award to the profile that is stored at the time of the write
ProfileWritten_Fresh(stored, snapshot, n) == AwardXp(stored, n)

\* { ...profile, xp: (profile?.xp || 0) + n } of the profile read earlier
ProfileWritten(stored, snapshot, n) == AwardXp(snapshot, n)

\* PUT /task/:id completing a task, up to `const profile = await kv.get(...)`
PutTaskBegin(c, u, taskId, updates) ==
  /\ inflight[c] = Null
  /\ verifyAuth(u)
  /\ ~NotFound(task, taskId, u)
  /\ CompletesNow(task[taskId], updates)
  /\ InXpRange(XpOf(user_profile[u]))
  /\ LET updatedTask == Spread(task[taskId], updates)
     IN /\ task' = kvSet(task, taskId, updatedTask)
        /\ inflight' = [inflight EXCEPT ![c] =
             [user |-> u, award |-> 20, profile |-> user_profile[u],
              response |-> [op |-> "task-update", user |-> u, status |-> 200,
                            taskId |-> taskId, task |-> updatedTask]]]
  /\ UNCHANGED <<now, authUsers, user_profile, user_routine, study_record,
                 goal, review, resp, document, clientVars>>

\* POST /review-complete/:id, up to `const profile = await kv.get(...)`
PostReviewCompleteBegin(c, u, reviewId, reviewDate) ==
  /\ inflight[c] = Null
  /\ verifyAuth(u)
  /\ ~NotFound(review, reviewId, u)
  /\ Len(review[reviewId].completedReviews) < MaxCompleted
  /\ InXpRange(XpOf(user_profile[u]))
  /\ review' = kvSet(review, reviewId, PushCompleted(review[reviewId], reviewDate))
  /\ inflight' = [inflight EXCEPT ![c] =
       [user |-> u, award |-> 15, profile |-> user_profile[u],
        response |-> [op |-> "review-complete", user |-> u, status |-> 200,
                      reviewId |-> reviewId, reviewDate |-> reviewDate]]]
  /\ UNCHANGED <<now, authUsers, user_profile, user_routine, study_record,
                 goal, task, resp, document, clientVars>>

\* the rest of either handler: await kv.set(`user_profile:${userId}`, ...)
\* and the response
WriteProfile(c) ==
  /\ inflight[c] # Null
  /\ LET r == inflight[c]
     IN /\ user_profile' = [user_profile EXCEPT ![r.user] =
             ProfileWritten(@, r.profile, r.award)]
        /\ resp' = r.response
  /\ inflight' = [inflight EXCEPT ![c] = Null]
  /\ UNCHANGED <<now, authUsers, user_routine, study_record, goal, task,
                 review, document, clientVars>>

----------------------------------------------------------------------------
(* Read routes, profile update and documents *)

\* GET /profile
GetProfile(u) ==
  IF ~verifyAuth(u) THEN Unauthorized("profile", u) ELSE
  /\ resp' = IF user_profile[u] = Null
             THEN [op |-> "profile", user |-> u, status |-> 404]
             ELSE [op |-> "profile", user |-> u, status |-> 200,
                   profile |-> user_profile[u]]
  /\ UNCHANGED <<inflight, clientVars, document, now, authUsers, user_profile,
                 user_routine, study_record, goal, task, review>>

\* request bodies of POST /profile
ProfileUpdates == {[name |-> "n"]}

\* POST /profile
PostProfile(u, updates) ==
  IF ~verifyAuth(u) THEN Unauthorized("profile-update", u) ELSE
  /\ user_profile' = [user_profile EXCEPT ![u] = Spread(@, updates)]
  /\ resp' = [op |-> "profile-update", user |-> u, status |-> 200,
              profile |-> Spread(user_profile[u], updates)]
  /\ UNCHANGED <<inflight, clientVars, document, now, authUsers,
                 user_routine, study_record, goal, task, review>>

\* GET /routine
GetRoutine(u) ==
  IF ~verifyAuth(u) THEN Unauthorized("routine-get", u) ELSE
  /\ resp' = [op |-> "routine-get", user |-> u, status |-> 200,
              routine |-> user_routine[u]]
  /\ UNCHANGED <<inflight, clientVars, document, now, authUsers, user_profile,
                 user_routine, study_record, goal, task, review>>

\* records.sort((a, b) => new Date(b.createdAt) - new Date(a.createdAt))
RECURSIVE SortByCreatedAtDesc(_)
SortByCreatedAtDesc(records) ==
  IF records = {} THEN <<>>
  ELSE LET first == CHOOSE r \in records :
                      \A q \in records : getTime(q.createdAt) <= getTime(r.createdAt)
       IN <<first>> \o SortByCreatedAtDesc(records \ {first})

\* GET /study-records
GetStudyRecords(u) ==
  IF ~verifyAuth(u) THEN Unauthorized("study-records", u) ELSE
  /\ resp' = [op |-> "study-records", user |-> u, status |-> 200,
              records |-> SortByCreatedAtDesc(
                {study_record[k] : k \in getByPrefix(study_record, u)})]
  /\ UNCHANGED <<inflight, clientVars, document, now, authUsers, user_profile,
                 user_routine, study_record, goal, task, review>>

\* GET /goals
GetGoals(u) ==
  IF ~verifyAuth(u) THEN Unauthorized("goals", u) ELSE
  /\ resp' = [op |-> "goals", user |-> u, status |-> 200,
              goals |-> {goal[k] : k \in getByPrefix(goal, u)}]
  /\ UNCHANGED <<inflight, clientVars, document, now, authUsers, user_profile,
                 user_routine, study_record, goal, task, review>>

\* the body of the answer of GET /tasks
TasksOf(u) == {task[k] : k \in getByPrefix(task, u)}

\* GET /tasks
GetTasks(u) ==
  IF ~verifyAuth(u) THEN Unauthorized("tasks", u) ELSE
  /\ resp' = [op |-> "tasks", user |-> u, status |-> 200, tasks |-> TasksOf(u)]
  /\ UNCHANGED <<inflight, clientVars, document, now, authUsers, user_profile,
                 user_routine, study_record, goal, task, review>>

\* the form of POST /upload-document: with or without a file, and what the
\* storage service answers
UploadForms ==
  {[file |-> f, storage |-> o] :
     f \in BOOLEAN, o \in {"ok", "uploadError", "urlError"}}

\* POST /upload-document
PostUploadDocument(u, form) ==
  IF ~verifyAuth(u) THEN Unauthorized("upload-document", u) ELSE
  /\ IF ~form.file
     THEN /\ resp' = [op |-> "upload-document", user |-> u, status |-> 400]
          /\ UNCHANGED document
     ELSE IF form.storage # "ok"
     THEN /\ resp' = [op |-> "upload-document", user |-> u, status |-> 500]
          /\ UNCHANGED document
     ELSE /\ NewId(u) \in DOMAIN document
             \/ Cardinality(DOMAIN document) < MaxDocuments
          /\ document' = kvSet(document, NewId(u),
               [userId |-> u, createdAt |-> toISOString(now)])
          /\ resp' = [op |-> "upload-document", user |-> u, status |-> 200,
                      documentId |-> NewId(u)]
  /\ UNCHANGED <<inflight, clientVars, now, authUsers, user_profile,
                 user_routine, study_record, goal, task, review>>

\* GET /documents
GetDocuments(u) ==
  IF ~verifyAuth(u) THEN Unauthorized("documents", u) ELSE
  /\ resp' = [op |-> "documents", user |-> u, status |-> 200,
              documents |-> {document[k] : k \in getByPrefix(document, u)}]
  /\ UNCHANGED <<inflight, clientVars, document, now, authUsers, user_profile,
                 user_routine, study_record, goal, task, review>>

----------------------------------------------------------------------------
(* App (client): session, profile fetch and what is rendered *)

\* what App renders (after the splash screen)
Screen ==
  IF loading THEN "loading"
  ELSE IF session = Null THEN "auth"
  ELSE IF appProfile = Null \/ ~appProfile.data.onboardingComplete THEN "onboarding"
  ELSE "dashboard"

\* fetchProfile(accessToken), up to `await fetch(...)`: the request is sent
\* useState of Onboarding.tsx: the wizard as it is when it mounts
OnboardingInit ==
  [step |-> 1, isLoading |-> FALSE, request |-> Null,
   routineData |-> [studentType |-> "", numberOfTuitions |-> 0,
                    tuitionDays |-> {}]]

\* App renders <Onboarding> exactly on the onboarding screen: the wizard's
\* state is created when that screen appears and dropped when it goes
Onboarding(screen) ==
  IF screen # "onboarding" THEN Null
  ELSE IF wizard = Null THEN OnboardingInit ELSE wizard

\* with the token of user u
fetchProfile(u) == fetches \cup {u}

\* setProfile(data.profile); the model keeps with it the token it was fetched with
ReceivedProfile(u, data) == [token |-> u, data |-> data]

\* supabase.auth.getSession().then(...) on mount: a persisted session of
\* user s, or none
getSession(s) ==
  /\ loading /\ session = Null /\ fetches = {}
  /\ s # Null => verifyAuth(s.user)
  /\ session' = s
  /\ IF s # Null
     THEN fetches' = fetchProfile(s.user) /\ UNCHANGED loading
     ELSE loading' = FALSE /\ UNCHANGED fetches
  /\ UNCHANGED <<now, authUsers, user_profile, user_routine, study_record,
                 goal, task, review, resp, inflight, document, dashboard,
                 appProfile, goals, tasks, localStorage>>
  /\ wizard' = Onboarding(Screen')

\* handleAuthSuccess(newSession), with the onAuthStateChange event of the
\* sign-in: the user signs in on the auth page
handleAuthSuccess(u) ==
  /\ Screen = "auth"
  /\ verifyAuth(u)
  /\ session' = [user |-> u]
  /\ fetches' = fetchProfile(u)
  /\ UNCHANGED <<now, authUsers, user_profile, user_routine, study_record,
                 goal, task, review, resp, inflight, document, dashboard,
                 appProfile, loading, goals, tasks, localStorage>>
  /\ wizard' = Onboarding(Screen')

\* handleSignOut, with the onAuthStateChange event of the sign-out
handleSignOut ==
  /\ session # Null
  /\ session' = Null
  /\ appProfile' = Null
  /\ loading' = FALSE
  /\ UNCHANGED <<now, authUsers, user_profile, user_routine, study_record,
                 goal, task, review, resp, inflight, document, dashboard,
                 fetches, goals, tasks, localStorage>>
  /\ wizard' = Onboarding(Screen')

\* the answer of GET /profile reaches fetchProfile: setProfile when
\* response.ok, and setLoading(false) in any case
FetchProfileResponse(u) ==
  /\ u \in fetches
  /\ fetches' = fetches \ {u}
  /\ loading' = FALSE
  /\ IF verifyAuth(u) /\ user_profile[u] # Null
     THEN /\ appProfile' = ReceivedProfile(u, user_profile[u])
          /\ resp' = [op |-> "profile", user |-> u, status |-> 200,
                      profile |-> user_profile[u]]
     ELSE /\ UNCHANGED appProfile
          /\ resp' = [op |-> "profile", user |-> u,
                      status |-> IF verifyAuth(u) THEN 404 ELSE 401]
  /\ UNCHANGED <<now, authUsers, user_profile, user_routine, study_record,
                 goal, task, review, inflight, document, dashboard,
                 session, goals, tasks, localStorage>>
  /\ wizard' = Onboarding(Screen')

\* fetch rejects (the network is down): the catch logs, finally
\* setLoading(false)
FetchProfileError(u) ==
  /\ u \in fetches
  /\ fetches' = fetches \ {u}
  /\ loading' = FALSE
  /\ UNCHANGED <<now, authUsers, user_profile, user_routine, study_record,
                 goal, task, review, resp, inflight, document, dashboard,
                 session, appProfile, goals, tasks, localStorage>>
  /\ wizard' = Onboarding(Screen')

----------------------------------------------------------------------------
(* Strings the client normalises, kept as sequences of characters *)

\* String.prototype.toLowerCase on the letters the model uses
ToLowerCase(str) ==
  [i \in 1..Len(str) |->
     IF str[i] = "A" THEN "a" ELSE IF str[i] = "B" THEN "b" ELSE str[i]]

\* str.replace(/\s+/g, '-'): every run of spaces becomes one dash
RECURSIVE ReplaceSpaces(_)
ReplaceSpaces(str) ==
  IF str = <<>> THEN <<>>
  ELSE IF str[1] # " " THEN <<str[1]>> \o ReplaceSpaces(Tail(str))
  ELSE IF Len(str) > 1 /\ str[2] = " " THEN ReplaceSpaces(Tail(str))
  ELSE <<"-">> \o ReplaceSpaces(Tail(str))

\* String.prototype.trim
RECURSIVE trim(_)
trim(str) ==
  IF str = <<>> THEN <<>>
  ELSE IF str[1] = " " THEN trim(Tail(str))
  ELSE IF str[Len(str)] = " " THEN trim(SubSeq(str, 1, Len(str) - 1))
  ELSE str

----------------------------------------------------------------------------
(* GoalsSectionFixed (client): goals kept in localStorage *)

\* the titles and target dates a user types into the goal form
GoalTitles == {<<"a">>, <<"A">>, <<"a", " ", "b">>, <<" ">>}
GoalTargetDates == {<<>>, <<"1">>}

\* the increments of the progress buttons
ProgressIncrements == {10, 25, -10}

\* `${goal.title}-${goal.targetDate}`.toLowerCase().replace(/\s+/g, '-')
generateId(g) == ReplaceSpaces(ToLowerCase(g.title \o <<"-">> \o g.targetDate))

\* Math.min(100, Math.max(0, goal.progress + increment))
ClampProgress(x) == IF x > 100 THEN 100 ELSE IF x < 0 THEN 0 ELSE x

\* goals.filter(g => g.id !== id)
RECURSIVE FilterOutId(_, _)
FilterOutId(list, id) ==
  IF list = <<>> THEN <<>>
  ELSE IF list[1].id # id THEN <<list[1]>> \o FilterOutId(Tail(list), id)
  ELSE FilterOutId(Tail(list), id)

\* the section is mounted in the Dashboard of the signed-in user
GoalsSectionShown == Screen = "dashboard"

\* handleSubmit of the goal form
GoalsHandleSubmit(title, targetDate) ==
  /\ GoalsSectionShown
  /\ IF trim(title) = <<>>
     THEN UNCHANGED <<goals, fetches>>
     ELSE /\ Len(goals) < MaxQuickGoals
          /\ LET formData == [id |-> <<>>, title |-> title, targetDate |-> targetDate,
                              progress |-> 0, completed |-> FALSE]
                 newGoal == Spread(formData, [id |-> generateId(formData),
                                              createdAt |-> toISOString(now)])
             IN goals' = Append(goals, newGoal)
          /\ fetches' = fetchProfile(session.user)
  /\ UNCHANGED <<now, authUsers, user_profile, user_routine, study_record,
                 goal, task, review, resp, inflight, document, dashboard,
                 session, appProfile, loading, wizard, tasks, localStorage>>

\* updateProgress(goal, increment) on the i-th goal of the list
updateProgress(i, increment) ==
  /\ GoalsSectionShown
  /\ i \in 1..Len(goals) /\ ~goals[i].completed
  /\ LET selected == goals[i]
         newProgress == ClampProgress(selected.progress + increment)
         upd(g) == IF g.id = selected.id
                   THEN Spread(g, [progress |-> newProgress,
                                   completed |-> newProgress = 100])
                   ELSE g
     IN /\ goals' = [j \in 1..Len(goals) |-> upd(goals[j])]
        /\ fetches' = IF newProgress = 100 /\ ~selected.completed
                      THEN fetchProfile(session.user) ELSE fetches
  /\ UNCHANGED <<now, authUsers, user_profile, user_routine, study_record,
                 goal, task, review, resp, inflight, document, dashboard,
                 session, appProfile, loading, wizard, tasks, localStorage>>

\* toggleComplete(goal) on the i-th goal of the list
toggleComplete(i) ==
  /\ GoalsSectionShown
  /\ i \in 1..Len(goals)
  /\ LET selected == goals[i]
         upd(g) == IF g.id = selected.id
                   THEN Spread(g, [completed |-> ~g.completed,
                                   progress |-> IF ~g.completed THEN 100
                                                ELSE g.progress])
                   ELSE g
     IN /\ goals' = [j \in 1..Len(goals) |-> upd(goals[j])]
        /\ fetches' = IF ~selected.completed
                      THEN fetchProfile(session.user) ELSE fetches
  /\ UNCHANGED <<now, authUsers, user_profile, user_routine, study_record,
                 goal, task, review, resp, inflight, document, dashboard,
                 session, appProfile, loading, wizard, tasks, localStorage>>

\* deleteGoal(goal) on the i-th goal of the list
deleteGoal(i) ==
  /\ GoalsSectionShown
  /\ i \in 1..Len(goals)
  /\ goals' = FilterOutId(goals, goals[i].id)
  /\ UNCHANGED <<now, authUsers, user_profile, user_routine, study_record,
                 goal, task, review, resp, inflight, document, dashboard,
                 session, appProfile, loading, fetches, wizard, tasks,
                 localStorage>>

----------------------------------------------------------------------------
(* TasksSection (client) *)

\* the task form: title, dueDate and subject
TaskForms == {[title |-> <<"a">>, dueDate |-> <<"1">>, subject |-> <<"B">>]}

\* `${task.title}-${task.dueDate}-${task.subject}`.toLowerCase().replace(/\s+/g, '-')
generateTaskId(t) ==
  ReplaceSpaces(ToLowerCase(t.title \o <<"-">> \o t.dueDate \o <<"-">> \o t.subject))

\* the array of a JSON answer, in the order the store returns it
RECURSIVE ToArray(_)
ToArray(set) ==
  IF set = {} THEN <<>>
  ELSE LET x == CHOOSE y \in set : TRUE IN <<x>> \o ToArray(set \ {x})

\* getTasksWithLocalState(): completed is taken from localStorage when the
\* task has an entry there
getTasksWithLocalState ==
  [i \in 1..Len(tasks) |->
     IF tasks[i].id \in DOMAIN localStorage
     THEN Spread(tasks[i], [completed |-> localStorage[tasks[i].id].completed])
     ELSE tasks[i]]

\* the section is mounted in the Dashboard of the signed-in user
TasksSectionShown == Screen = "dashboard"

\* (data.tasks || []).map(task => ({ ...task, id: generateTaskId(task) }))
FetchedTasks(u) ==
  LET fetched == ToArray(TasksOf(u))
  IN [i \in 1..Len(fetched) |->
        Spread(fetched[i], [id |-> generateTaskId(fetched[i])])]

\* fetchTasks: GET /tasks with the session's token, then setTasks
fetchTasks ==
  /\ TasksSectionShown
  /\ verifyAuth(session.user)
  /\ tasks' = FetchedTasks(session.user)
  /\ resp' = [op |-> "tasks", user |-> session.user, status |-> 200,
              tasks |-> TasksOf(session.user)]
  /\ UNCHANGED <<now, authUsers, user_profile, user_routine, study_record,
                 goal, task, review, inflight, document, dashboard,
                 session, appProfile, loading, fetches, wizard, goals,
                 localStorage>>

\* toggleTaskComplete(task) on the i-th task shown
toggleTaskComplete(i) ==
  /\ TasksSectionShown
  /\ i \in 1..Len(tasks)
  /\ LET shown == getTasksWithLocalState[i]
         upd(t) == IF t.id = shown.id THEN Spread(t, [completed |-> ~t.completed])
                   ELSE t
     IN /\ tasks' = [j \in 1..Len(tasks) |-> upd(tasks[j])]
        /\ fetches' = IF ~shown.completed THEN fetchProfile(session.user)
                      ELSE fetches
        /\ localStorage' = kvSet(localStorage, shown.id,
             Spread(shown, [completed |-> ~shown.completed]))
  /\ UNCHANGED <<now, authUsers, user_profile, user_routine, study_record,
                 goal, task, review, resp, inflight, document, dashboard,
                 session, appProfile, loading, wizard, goals>>

\* deleteTask(task) on the i-th task shown
deleteTask(i) ==
  /\ TasksSectionShown
  /\ i \in 1..Len(tasks)
  /\ LET shown == getTasksWithLocalState[i]
     IN /\ tasks' = FilterOutId(tasks, shown.id)
        /\ localStorage' = kvDel(localStorage, shown.id)
  /\ UNCHANGED <<now, authUsers, user_profile, user_routine, study_record,
                 goal, task, review, resp, inflight, document, dashboard,
                 session, appProfile, loading, fetches, wizard, goals>>

----------------------------------------------------------------------------
(* Onboarding wizard (client) *)

\* the last index of DAYS that the model toggles
MaxDayIndex == 1

DayIndexes == 0..MaxDayIndex

StudentTypes == {"school", "college"}

\* what the number input can hold after parseInt(e.target.value) || 0
TuitionCounts == {-1, 0, 2}

\* getStepSequence(): the tuition steps exist when numberOfTuitions > 0, and
\* the subjects step when a tuition day is selected
getStepSequence(routineData) ==
  <<"student-type", "num-tuitions", "school-days", "school-hours",
    "travel-school">>
  \o (IF routineData.numberOfTuitions > 0
      THEN <<"tuition-hours", "travel-tuition", "tuition-days">>
           \o (IF routineData.tuitionDays # {} THEN <<"tuition-subjects">>
               ELSE <<>>)
      ELSE <<>>)

\* stepSequence[step - 1], undefined past the end of the sequence
currentStepId ==
  IF wizard.step \in 1..Len(getStepSequence(wizard.routineData))
  THEN getStepSequence(wizard.routineData)[wizard.step]
  ELSE "undefined"

totalSteps == Len(getStepSequence(wizard.routineData))

OnboardingShown == wizard # Null /\ Screen = "onboarding"

WizardStep ==
  UNCHANGED <<now, authUsers, user_profile, user_routine, study_record,
              goal, task, review, resp, inflight, document, dashboard,
              session, appProfile, loading, fetches, goals, tasks,
              localStorage>>

\* the radio group of the student-type step
SelectStudentType(value) ==
  /\ OnboardingShown
  /\ currentStepId = "student-type"
  /\ wizard' = [wizard EXCEPT !.routineData.studentType = value]
  /\ WizardStep

\* the number input of the num-tuitions step
SetNumberOfTuitions(n) ==
  /\ OnboardingShown
  /\ currentStepId = "num-tuitions"
  /\ wizard' = [wizard EXCEPT !.routineData.numberOfTuitions = n]
  /\ WizardStep

\* the day buttons of the tuition-days step; the days are kept as a set, the
\* order newDays.sort() gives them plays no part in the step sequence
handleTuitionDayToggle(dayIndex) ==
  /\ OnboardingShown
  /\ currentStepId = "tuition-days"
  /\ wizard' = [wizard EXCEPT !.routineData.tuitionDays =
       IF dayIndex \in @ THEN @ \ {dayIndex} ELSE @ \cup {dayIndex}]
  /\ WizardStep

\* {step < totalSteps ? <Button onClick={handleNext}> : <Button onClick={handleSubmit}>}
NextButtonShown == wizard.step < totalSteps

\* handleNext: the three validations return early, otherwise setStep(step + 1)
handleNext ==
  /\ OnboardingShown
  /\ NextButtonShown
  /\ IF \/ currentStepId = "student-type" /\ wizard.routineData.studentType = ""
        \/ currentStepId = "num-tuitions" /\ wizard.routineData.numberOfTuitions < 0
        \/ currentStepId = "tuition-days" /\ wizard.routineData.tuitionDays = {}
     THEN UNCHANGED wizard
     ELSE wizard' = [wizard EXCEPT !.step = @ + 1]
  /\ WizardStep

\* handleBack, behind {step > 1 && ...}
handleBack ==
  /\ OnboardingShown
  /\ wizard.step > 1
  /\ wizard' = [wizard EXCEPT !.step = @ - 1]
  /\ WizardStep

\* handleSubmit, up to the fetch: setIsLoading(true) and POST /routine with
\* JSON.stringify(routineData); the button is disabled while isLoading
handleSubmit ==
  /\ OnboardingShown
  /\ ~NextButtonShown
  /\ ~wizard.isLoading
  /\ wizard' = [wizard EXCEPT !.isLoading = TRUE,
                              !.request = wizard.routineData]
  /\ WizardStep

\* the server handles the wizard's POST /routine
ServeRoutineRequest ==
  /\ OnboardingShown
  /\ wizard.request # Null
  /\ resp.op # "routine"
  /\ PostRoutine(session.user)

\* handleSubmit, after the fetch: onComplete() when response.ok, and
\* setIsLoading(false) in any case
handleSubmitResponse ==
  /\ OnboardingShown
  /\ wizard.request # Null
  /\ resp.op = "routine"
  /\ fetches' = IF resp.status = 200 THEN fetchProfile(session.user) ELSE fetches
  /\ wizard' = [wizard EXCEPT !.isLoading = FALSE, !.request = Null]
  /\ UNCHANGED <<now, authUsers, user_profile, user_routine, study_record,
                 goal, task, review, resp, inflight, document, dashboard,
                 session, appProfile, loading, goals, tasks, localStorage>>

----------------------------------------------------------------------------
(* Auth and clock *)

PostSignup(u) ==
  /\ u \notin authUsers
  /\ authUsers' = authUsers \cup {u}
  /\ user_profile' = [user_profile EXCEPT ![u] = InitialProfile]
  /\ resp' = [op |-> "signup", user |-> u, status |-> 200]
  /\ UNCHANGED <<inflight, clientVars, document, now, user_routine, study_record, goal, task, review>>

\* time passes between requests
Tick ==
  /\ now + HalfDay <= T0 + MaxDays * DaySec
  /\ now' = now + HalfDay
  /\ UNCHANGED <<authUsers, user_profile, user_routine, study_record,
                 goal, task, review, resp, inflight, document, clientVars>>

\* the components before they are mounted
InitClient ==
  /\ dashboard = Null
  /\ session = Null
  /\ appProfile = Null
  /\ loading = TRUE
  /\ fetches = {}
  /\ wizard = Null
  /\ goals = <<>>
  /\ tasks = <<>>
  /\ localStorage = <<>>

Init ==
  /\ now = T0
  /\ authUsers = {}
  /\ user_profile = [u \in Users |-> Null]
  /\ user_routine = [u \in Users |-> Null]
  /\ study_record = <<>>
  /\ goal = <<>>
  /\ task = <<>>
  /\ review = <<>>
  /\ document = <<>>
  /\ resp = [op |-> "none", user |-> "none", status |-> 0]
  /\ inflight = [c \in Connections |-> Null]
  /\ InitClient

ReviewRoutes ==
  \/ \E u \in Users, s \in StudiedAtInputs : PostReviewSchedule(u, s)
  \/ \E u \in Users : GetReviewsDue(u)
  \/ \E u \in Users, id \in RequestIds(review) :
       \E d \in ReviewDateInputs(id) : PostReviewComplete(u, id, d)

NextReview ==
  \/ Tick
  \/ \E u \in Users : PostSignup(u)
  \/ ReviewRoutes

SpecReview == Init /\ [][NextReview]_vars

\* the user whose study sessions SpecStudy follows
Students == {"u1"}

StudyRoutes ==
  \E u \in Students, b \in StudyBodies : PostStudyRecord(u, b)

GoalRoutes ==
  \/ \E u \in Users, b \in GoalBodies : PostGoal(u, b)
  \/ \E u \in Users, id \in RequestIds(goal), b \in GoalUpdates : PutGoal(u, id, b)

\* creating and updating tasks
TaskUpdateRoutes ==
  \/ \E u \in Users, b \in TaskBodies : PostTask(u, b)
  \/ \E u \in Users, id \in RequestIds(task), b \in TaskUpdates : PutTask(u, id, b)

TaskRoutes ==
  \/ TaskUpdateRoutes
  \/ \E u \in Users, id \in RequestIds(task) : DeleteTask(u, id)

NextGoal ==
  \/ Tick
  \/ \E u \in Users : PostSignup(u)
  \/ GoalRoutes

SpecGoal == Init /\ [][NextGoal]_vars

\* SpecTask follows tasks that are created and updated, never deleted
NextTask ==
  \/ Tick
  \/ \E u \in Users : PostSignup(u)
  \/ TaskUpdateRoutes

SpecTask == Init /\ [][NextTask]_vars

NextStudy ==
  \/ Tick
  \/ \E u \in Students : PostSignup(u)
  \/ StudyRoutes

SpecStudy == Init /\ [][NextStudy]_vars

\* the routes that address a stored record by id, called by every user, and
\* the routes that create the records, called by one user, all within one
\* instant
NextById ==
  \/ \E u \in Users : PostSignup(u)
  \/ \E u \in Students, b \in GoalBodies : PostGoal(u, b)
  \/ \E u \in Students, b \in TaskBodies : PostTask(u, b)
  \/ \E u \in Students : PostReviewSchedule(u, [kind |-> "absent", iso |-> Null])
  \/ \E u \in Users, id \in RequestIds(goal) :
       PutGoal(u, id, [completed |-> TRUE])
  \/ \E u \in Users, id \in RequestIds(task) :
       PutTask(u, id, [completed |-> TRUE])
  \/ \E u \in Users, id \in RequestIds(task) : DeleteTask(u, id)
  \/ \E u \in Users, id \in RequestIds(review) :
       PostReviewComplete(u, id, toISOString(now))

SpecById == Init /\ [][NextById]_vars

\* one user's task completions and review completions on two connections,
\* all within one instant
NextRace ==
  \/ \E u \in Students : PostSignup(u)
  \/ \E u \in Students, b \in TaskBodies : PostTask(u, b)
  \/ \E u \in Students : PostReviewSchedule(u, [kind |-> "absent", iso |-> Null])
  \/ \E c \in Connections, u \in Students, id \in RequestIds(task) :
       PutTaskBegin(c, u, id, [completed |-> TRUE])
  \/ \E c \in Connections, u \in Students, id \in RequestIds(review) :
       PostReviewCompleteBegin(c, u, id, toISOString(now))
  \/ \E c \in Connections : WriteProfile(c)

SpecRace == Init /\ [][NextRace]_vars

\* every route of the server within one instant, called by a user who signed
\* up and by one who did not
NextAuth ==
  \/ \E u \in Students : PostSignup(u)
  \/ \E u \in Users : GetProfile(u)
  \/ \E u \in Users, b \in ProfileUpdates : PostProfile(u, b)
  \/ \E u \in Users : PostRoutine(u)
  \/ \E u \in Users : GetRoutine(u)
  \/ \E u \in Users : PostStudyRecord(u, [duration |-> 45])
  \/ \E u \in Users : GetStudyRecords(u)
  \/ \E u \in Users, b \in GoalBodies : PostGoal(u, b)
  \/ \E u \in Users : GetGoals(u)
  \/ \E u \in Users, id \in RequestIds(goal) :
       PutGoal(u, id, [progress |-> 100, completed |-> TRUE])
  \/ \E u \in Users, b \in TaskBodies : PostTask(u, b)
  \/ \E u \in Users : GetTasks(u)
  \/ \E u \in Users, id \in RequestIds(task) : PutTask(u, id, [completed |-> TRUE])
  \/ \E u \in Users, id \in RequestIds(task) : DeleteTask(u, id)
  \/ \E u \in Users : PostReviewSchedule(u, [kind |-> "absent", iso |-> Null])
  \/ \E u \in Users : GetReviewsDue(u)
  \/ \E u \in Users, id \in RequestIds(review) :
       PostReviewComplete(u, id, toISOString(now))
  \/ \E u \in Users, f \in UploadForms : PostUploadDocument(u, f)
  \/ \E u \in Users : GetDocuments(u)

SpecAuth == Init /\ [][NextAuth]_vars

\* App on one browser used by every user: signup and onboarding on the
\* server, sign-in, sign-out and the profile fetches
NextApp ==
  \/ \E u \in Users : PostSignup(u)
  \/ \E u \in Users : PostRoutine(u)
  \/ \E s \in {Null} \cup {[user |-> u] : u \in Users} : getSession(s)
  \/ \E u \in Users : handleAuthSuccess(u)
  \/ handleSignOut
  \/ \E u \in Users : FetchProfileResponse(u)
  \/ \E u \in Users : FetchProfileError(u)

SpecApp == Init /\ [][NextApp]_vars

\* one user signs up, completes onboarding, signs in and uses the goals
\* section of the Dashboard
NextQuickGoals ==
  \/ \E u \in Students : PostSignup(u)
  \/ \E u \in Students : PostRoutine(u)
  \/ \E u \in Students : handleAuthSuccess(u)
  \/ getSession(Null)
  \/ \E u \in Students : FetchProfileResponse(u)
  \/ \E t \in GoalTitles, d \in GoalTargetDates : GoalsHandleSubmit(t, d)
  \/ \E i \in 1..MaxQuickGoals, n \in ProgressIncrements : updateProgress(i, n)
  \/ \E i \in 1..MaxQuickGoals : toggleComplete(i)
  \/ \E i \in 1..MaxQuickGoals : deleteGoal(i)

SpecQuickGoals == Init /\ [][NextQuickGoals]_vars

\* one user signs up, completes onboarding, signs in and uses the tasks
\* section of the Dashboard; the task form is posted to POST /task
NextTasksSection ==
  \/ Tick
  \/ \E u \in Students : PostSignup(u)
  \/ \E u \in Students : PostRoutine(u)
  \/ \E u \in Students : handleAuthSuccess(u)
  \/ getSession(Null)
  \/ \E u \in Students : FetchProfileResponse(u)
  \/ \E u \in Students, f \in TaskForms : TasksSectionShown /\ PostTask(u, f)
  \/ fetchTasks
  \/ \E i \in 1..MaxTasks : toggleTaskComplete(i)
  \/ \E i \in 1..MaxTasks : deleteTask(i)

SpecTasksSection == Init /\ [][NextTasksSection]_vars

\* students sign up, sign in and go through the onboarding wizard
NextWizard ==
  \/ \E u \in Students : PostSignup(u)
  \/ \E u \in Students : handleAuthSuccess(u)
  \/ getSession(Null)
  \/ \E u \in Students : FetchProfileResponse(u)
  \/ \E value \in StudentTypes : SelectStudentType(value)
  \/ \E n \in TuitionCounts : SetNumberOfTuitions(n)
  \/ \E dayIndex \in DayIndexes : handleTuitionDayToggle(dayIndex)
  \/ handleNext
  \/ handleBack
  \/ handleSubmit
  \/ ServeRoutineRequest
  \/ handleSubmitResponse

SpecWizard == Init /\ [][NextWizard]_vars

\* a JSON body may carry any field, a userId among them
WithUserId(bodies) ==
  bodies \cup {Spread(b, [userId |-> v]) : b \in bodies, v \in Users}

\* one user creates goals, tasks and study records, within one instant,
\* from bodies with and without a userId field
NextOwner ==
  \/ \E u \in Students : PostSignup(u)
  \/ \E u \in Students, b \in WithUserId(GoalBodies) : PostGoal(u, b)
  \/ \E u \in Students, b \in WithUserId(TaskBodies) : PostTask(u, b)
  \/ \E u \in Students, b \in WithUserId({[duration |-> 45]}) :
       PostStudyRecord(u, b)

SpecOwner == Init /\ [][NextOwner]_vars

\* schedule creation with every kind of studiedAt
NextSchedule ==
  \/ Tick
  \/ \E u \in Users : PostSignup(u)
  \/ \E u \in Users, s \in StudiedAtInputs \cup UnparseableStudiedAt :
       PostReviewSchedule(u, s)

SpecSchedule == Init /\ [][NextSchedule]_vars

\* signup and onboarding
NextRoutine ==
  \/ Tick
  \/ \E u \in Users : PostSignup(u)
  \/ \E u \in Users : PostRoutine(u)

SpecRoutine == Init /\ [][NextRoutine]_vars

\* the xp a profile can hold when the Dashboard renders it: the awards are
\* multiples of 5, and a negative duration lowers xp by a multiple of 10
XpSamples == {x \in -20..MaxLevelXp : x % 5 = 0}

\* accounts that completed onboarding, with any xp
InitDashboard ==
  /\ now = T0
  /\ authUsers = Students
  /\ user_profile \in
       [Users -> {Null} \cup {Spread(InitialProfile,
                                    [xp |-> x, onboardingComplete |-> TRUE]) :
                               x \in XpSamples}]
  /\ \A u \in Users : user_profile[u] # Null <=> u \in Students
  /\ user_routine = [u \in Users |->
       IF u \in Students
       THEN [createdAt |-> toISOString(T0), updatedAt |-> toISOString(T0)]
       ELSE Null]
  /\ study_record = <<>>
  /\ goal = <<>>
  /\ task = <<>>
  /\ review = <<>>
  /\ document = <<>>
  /\ resp = [op |-> "none", user |-> "none", status |-> 0]
  /\ inflight = [c \in Connections |-> Null]
  /\ InitClient

NextDashboard == \E u \in Users : Dashboard(u)

SpecDashboard == InitDashboard /\ [][NextDashboard]_vars

\* every route of the server
Next ==
  \/ Tick
  \/ \E u \in Users : PostSignup(u)
  \/ \E u \in Users : PostRoutine(u)
  \/ \E u \in Users, b \in StudyBodies : PostStudyRecord(u, b)
  \/ GoalRoutes
  \/ TaskRoutes
  \/ ReviewRoutes

Spec == Init /\ [][Next]_vars

----------------------------------------------------------------------------
(* Properties of the spaced-repetition routes, checked under SpecReview *)

\* the elements of a sequence
Range(seq) == {seq[i] : i \in 1..Len(seq)}

\* a step in which the server handled a request of kind op (the clock stands
\* still while a request is handled; only Tick moves it)
Handled(op) == now' = now /\ resp'.op = op

\* C1: every stored ReviewSchedule has exactly 5 review timestamps, in
\* ascending order, equal to its studiedAt plus 1, 3, 7, 14 and 30 days of
\* 86400 seconds; the schedule returned by POST /review-schedule is built the
\* same way and review completion leaves it so.
C1_ReviewsShape ==
  /\ \A id \in DOMAIN review :
       LET r == review[id]
           T == getTime(r.studiedAt)
       IN /\ Len(r.reviews) = 5
          /\ r.reviews = <<toISOString(T + 1 * 86400), toISOString(T + 3 * 86400),
                           toISOString(T + 7 * 86400), toISOString(T + 14 * 86400),
                           toISOString(T + 30 * 86400)>>
          /\ \A i \in 1..4 : getTime(r.reviews[i]) < getTime(r.reviews[i + 1])
  /\ (resp.op = "review-schedule" /\ resp.status = 200) =>
       /\ Len(resp.reviews) = 5
       /\ \A i \in 1..4 : getTime(resp.reviews[i]) < getTime(resp.reviews[i + 1])
       /\ resp.scheduleId \in DOMAIN review =>
            resp.reviews = review[resp.scheduleId].reviews
       /\ \A i \in 1..5 :
            getTime(resp.reviews[i]) - getTime(resp.reviews[1]) =
              (<<1, 3, 7, 14, 30>>[i] - 1) * 86400

\* C1 witness: a schedule created from a client-supplied studiedAt has been
\* through a review completion
C1_Witness ==
  \E id \in DOMAIN review :
    /\ review[id].studiedAt # review[id].createdAt
    /\ Len(review[id].completedReviews) = 2
    /\ resp.op = "review-complete" /\ resp.status = 200

\* the review timestamps of schedule r that are not completed and are due at
\* instant t
Pending(r, t) ==
  {x \in Range(r.reviews) : x \notin Range(r.completedReviews) /\ getTime(x) <= t}

C9_ReviewComplete ==
  [][(/\ Handled("review-complete")
      /\ resp'.user \in authUsers
      /\ resp'.reviewId \in DOMAIN review
      /\ review[resp'.reviewId].userId = resp'.user) =>
       LET id == resp'.reviewId
           u == resp'.user
       IN /\ resp'.status = 200
          /\ review'[id].completedReviews =
               review[id].completedReviews \o <<resp'.reviewDate>>
          /\ user_profile'[u].xp = user_profile[u].xp + 15
     ]_vars

\* C9 witness: a review date was completed twice and both completions paid
C9_Witness ==
  /\ resp.op = "review-complete" /\ resp.status = 200
  /\ LET r == review[resp.reviewId]
     IN /\ Len(r.completedReviews) = 2
        /\ r.completedReviews[1] = r.completedReviews[2]
        /\ r.completedReviews[2] = resp.reviewDate
  /\ user_profile[resp.user].xp = 30

\* C10: a review timestamp appears in a schedule's completedReviews at most
\* once.
C10_NoDuplicateCompletion ==
  \A id \in DOMAIN review :
    \A i, j \in 1..Len(review[id].completedReviews) :
      review[id].completedReviews[i] = review[id].completedReviews[j] => i = j

----------------------------------------------------------------------------
(* Properties of POST /study-record, checked under SpecStudy *)

\* the calendar days (days since the epoch) on which user u logged a session
StudyDays(u) ==
  {getTime(study_record[k].createdAt) \div 86400 :
     k \in {x \in DOMAIN study_record : study_record[x].userId = u}}

\* C3: with lastStudyDate on calendar day D, a session logged on day D leaves
\* streak unchanged, on day D+1 adds exactly 1, on day D+2 or later (or with
\* lastStudyDate null) sets streak to 1; the response reports the new streak.
C3_StreakLaw ==
  [][(Handled("study-record") /\ resp'.status = 200) =>
       LET p == user_profile[resp'.user]
           q == user_profile'[resp'.user]
           today == now \div 86400
       IN /\ resp'.streak = q.streak
          /\ IF p.lastStudyDate = Null THEN q.streak = 1
             ELSE LET D == getTime(p.lastStudyDate) \div 86400
                  IN /\ today = D => q.streak = p.streak
                     /\ today = D + 1 => q.streak = p.streak + 1
                     /\ today >= D + 2 => q.streak = 1
     ]_vars

\* C3 witness: after sessions on two consecutive days (streak 2) a session
\* logged two or more days later has reset the streak to 1
C3_Witness ==
  /\ resp.op = "study-record" /\ resp.status = 200 /\ resp.streak = 1
  /\ \E d \in StudyDays(resp.user) :
       /\ d + 1 \in StudyDays(resp.user)
       /\ \E e \in StudyDays(resp.user) :
            /\ e >= d + 3
            /\ user_profile[resp.user].lastStudyDate[1] = e

\* C4: starting from the signup profile, streak is the number of consecutive
\* calendar days, ending with the day of the latest session, on each of which
\* the user logged at least one session (0 and no lastStudyDate before the
\* first session).
C4_StreakCountsRun ==
  \A u \in authUsers :
    LET p == user_profile[u]
        days == StudyDays(u)
    IN IF days = {}
       THEN p.streak = 0 /\ p.lastStudyDate = Null
       ELSE LET last == CHOOSE d \in days : \A e \in days : e <= d
            IN /\ p.lastStudyDate # Null
               /\ getTime(p.lastStudyDate) \div 86400 = last
               /\ p.streak =
                    Cardinality({d \in days : \A e \in d..last : e \in days})

\* C4 witness: sessions on a first day, the next day, and then after two
\* skipped days: the streak is back to 1
C4_Witness ==
  \E u \in authUsers : \E d \in StudyDays(u) :
    /\ StudyDays(u) = {d, d + 1, d + 4}
    /\ user_profile[u].streak = 1

\* C5: a session of d minutes adds exactly floor(d / 15) * 10 to the stored
\* xp and the response reports that value as xpGained (no duration counts as 0).
C5_SessionXp ==
  [][(Handled("study-record") /\ resp'.status = 200) =>
       LET body == resp'.recordData
           d == IF "duration" \in DOMAIN body THEN body.duration ELSE 0
           q == CHOOSE k \in -10..10 : 15 * k <= d /\ d < 15 * (k + 1)
       IN /\ user_profile'[resp'.user].xp = user_profile[resp'.user].xp + q * 10
          /\ resp'.xpGained = q * 10
          /\ study_record'[resp'.recordId].userId = resp'.user
     ]_vars

\* C5 witness: a 45-minute session paid 30 xp on top of a session without a
\* duration, which paid nothing
C5_Witness ==
  /\ resp.op = "study-record" /\ resp.status = 200
  /\ resp.recordData = [duration |-> 45] /\ resp.xpGained = 30
  /\ user_profile[resp.user].xp = 30
  /\ \E k \in DOMAIN study_record : "duration" \notin DOMAIN study_record[k]

\* C6: no step lowers a user's xp, and xp is never negative.
C6_XpNeverDecreases ==
  [][\A u \in Users :
       /\ XpOf(user_profile'[u]) >= XpOf(user_profile[u])
       /\ XpOf(user_profile'[u]) >= 0
    ]_vars

----------------------------------------------------------------------------
(* Properties of PUT /task/:id (SpecTask) and PUT /goal/:id (SpecGoal) *)

\* the xp a request added to its caller's profile
XpGained(u) == XpOf(user_profile'[u]) - XpOf(user_profile[u])

\* C7: PUT /task/:id adds 20 xp to the caller exactly when the stored task
\* had completed = false and the update made it completed = true; any other
\* update, such as completed = true on an already completed task, adds nothing.
C7_TaskCompletionXp ==
  [][Handled("task-update") =>
       /\ XpGained(resp'.user) =
            IF \E id \in DOMAIN task \cap DOMAIN task' :
                 ~task[id].completed /\ task'[id].completed
            THEN 20 ELSE 0
       /\ \A v \in Users \ {resp'.user} : user_profile'[v] = user_profile[v]
     ]_vars

\* C7 witness: a completed task was un-completed and completed again by its
\* owner, who was paid for both completions
C7_Witness ==
  /\ resp.op = "task-update" /\ resp.status = 200
  /\ resp.taskId \in DOMAIN task /\ task[resp.taskId].completed
  /\ user_profile[resp.user].xp = 40

\* C8: PUT /goal/:id adds exactly 100 xp to the caller when, and only when,
\* the stored goal had completed = false and the update made it completed =
\* true; progress-only updates and completed = true on a completed goal leave
\* xp unchanged.
C8_GoalCompletionXp ==
  [][Handled("goal-update") =>
       /\ XpGained(resp'.user) =
            IF \E id \in DOMAIN goal \cap DOMAIN goal' :
                 ~goal[id].completed /\ goal'[id].completed
            THEN 100 ELSE 0
       /\ \A v \in Users \ {resp'.user} : user_profile'[v] = user_profile[v]
     ]_vars

\* C8 witness: a completed goal received a later progress-only update and its
\* owner still has the 100 xp of the one completion
C8_Witness ==
  /\ resp.op = "goal-update" /\ resp.status = 200
  /\ resp.goal.completed /\ resp.goal.progress = 50
  /\ user_profile[resp.user].xp = 100

\* C11: every entry of a schedule's completedReviews is one of that
\* schedule's five review timestamps.
C11_CompletedAreScheduled ==
  \A id \in DOMAIN review :
    Range(review[id].completedReviews) \subseteq Range(review[id].reviews)

\* C12: completedReviews of a stored schedule only grows: from one state to
\* the next the schedule stays stored and every entry it held is still
\* there (nothing is removed); a schedule is created with none.
C12_CompletedOnlyGrows ==
  [][/\ \A id \in DOMAIN review :
          /\ id \in DOMAIN review'
          /\ Range(review[id].completedReviews) \subseteq
               Range(review'[id].completedReviews)
     /\ \A id \in DOMAIN review' \ DOMAIN review :
          review'[id].completedReviews = <<>>
    ]_vars

----------------------------------------------------------------------------
(* Properties of POST /routine, checked under SpecRoutine *)

\* C13: the 50 xp onboarding bonus is applied once per account: a successful
\* POST /routine adds 50 xp when the caller's onboarding was not complete
\* yet, and adds nothing when it already was.
C13_OnboardingBonusOnce ==
  [][(Handled("routine") /\ resp'.status = 200) =>
       XpGained(resp'.user) =
         IF user_profile[resp'.user].onboardingComplete THEN 0 ELSE 50
    ]_vars

----------------------------------------------------------------------------
(* Properties of the Dashboard, checked under SpecDashboard *)

\* C14: for a profile with xp >= 0 the level the Dashboard shows is
\* floor(xp / 1000) + 1, that is the L with (L - 1) * 1000 <= xp < L * 1000,
\* whatever level the profile stores, and the progress it shows is the
\* fraction (xp mod 1000) / 1000 toward the next level, as a percentage.
C14_LevelFromXp ==
  (dashboard # Null /\ dashboard.xp >= 0) =>
    /\ (dashboard.level - 1) * 1000 <= dashboard.xp
    /\ dashboard.xp < dashboard.level * 1000
    /\ dashboard.xpProgress[1] * 1000 =
         (dashboard.xp - (dashboard.level - 1) * 1000) * 100 * dashboard.xpProgress[2]
    /\ dashboard.xpProgress[2] > 0

\* C14 witness: a profile whose stored level is still 1 is shown at level 3,
\* half way to the next level
C14_Witness ==
  /\ dashboard # Null /\ dashboard.xp = 2500
  /\ user_profile[dashboard.user].level = 1
  /\ dashboard.level = 3
  /\ dashboard.xpProgress[1] * 2 = 100 * dashboard.xpProgress[2]

----------------------------------------------------------------------------
(* Completion of goals and tasks *)

\* C15: completed = true is terminal for goals and tasks: a stored goal or
\* task that is completed is still completed after any update of it by PUT
\* /goal/:id or PUT /task/:id, the routes that change a stored goal or task.
C15_CompletedIsTerminal ==
  [][(Handled("goal-update") \/ Handled("task-update")) =>
       /\ \A id \in DOMAIN goal \cap DOMAIN goal' :
            goal[id].completed => goal'[id].completed
       /\ \A id \in DOMAIN task \cap DOMAIN task' :
            task[id].completed => task'[id].completed
    ]_vars

----------------------------------------------------------------------------
(* Properties of POST /study-record, checked under SpecStudy *)

\* C16: study records are append-only: every stored record is still stored,
\* unchanged, after any step, and a successful POST /study-record adds one
\* record to the store.
C16_RecordsAppendOnly ==
  [][/\ \A k \in DOMAIN study_record :
          k \in DOMAIN study_record' /\ study_record'[k] = study_record[k]
     /\ (Handled("study-record") /\ resp'.status = 200) =>
          Cardinality(DOMAIN study_record') = Cardinality(DOMAIN study_record) + 1
    ]_vars

\* C18: POST /study-record with a negative duration is rejected as invalid
\* input (status 400): no record is stored and the profile does not change.
C18_NegativeDurationRejected ==
  [][(/\ Handled("study-record")
      /\ resp'.status # 401
      /\ DurationOf(resp'.recordData) < 0) =>
       /\ resp'.status = 400
       /\ study_record' = study_record
       /\ user_profile' = user_profile
    ]_vars

----------------------------------------------------------------------------
(* Properties of POST /review-schedule, checked under SpecSchedule *)

\* C17: POST /review-schedule with a studiedAt that cannot be parsed as a
\* timestamp is rejected as invalid input (status 400) instead of being
\* given the current time, and stores no schedule.
C17_UnparseableStudiedAtRejected ==
  [][(/\ Handled("review-schedule")
      /\ resp'.status # 401
      /\ resp'.studiedAt \in {"invalid", "empty"}) =>
       /\ resp'.status = 400
       /\ review' = review
    ]_vars

----------------------------------------------------------------------------
(* Properties of the routes that address a record by id, checked under
   SpecById *)

\* no record is stored under id, or the stored record belongs to another user
NotOwnedBy(store, id, u) == id \notin DOMAIN store \/ store[id].userId # u

\* C19: PUT /goal/:id, PUT /task/:id, DELETE /task/:id and POST
\* /review-complete/:id answer 404 NotFound and leave the whole store
\* unchanged when no record is stored under the id or the stored record's
\* userId is not the authenticated caller.
C19_NotFoundChangesNothing ==
  [][(/\ now' = now
      /\ resp'.status # 401
      /\ \/ resp'.op = "goal-update" /\ NotOwnedBy(goal, resp'.goalId, resp'.user)
         \/ resp'.op = "task-update" /\ NotOwnedBy(task, resp'.taskId, resp'.user)
         \/ resp'.op = "task-delete" /\ NotOwnedBy(task, resp'.taskId, resp'.user)
         \/ resp'.op = "review-complete"
              /\ NotOwnedBy(review, resp'.reviewId, resp'.user)) =>
       /\ resp'.status = 404
       /\ UNCHANGED <<user_profile, user_routine, study_record, goal, task, review>>
    ]_vars

\* C19 witness: a user asked to delete another user's task, was answered 404
\* and the task is still stored
C19_Witness ==
  /\ resp.op = "task-delete" /\ resp.status = 404
  /\ resp.taskId \in DOMAIN task
  /\ task[resp.taskId].userId # resp.user

----------------------------------------------------------------------------
(* Properties of overlapping requests, checked under SpecRace *)

\* C20: the profile update is an unsynchronised read-modify-write: a request
\* writes back the xp it read plus its own award, so when another request of
\* the same user wrote its award after that read (the two overlapped), that
\* award is dropped and the xp left is lower than the xp before both plus
\* both awards.
C20_LostUpdate ==
  [][\A c \in Connections :
       (inflight[c] # Null /\ inflight'[c] = Null) =>
         LET u == inflight[c].user
             read == XpOf(inflight[c].profile)
         IN /\ XpOf(user_profile'[u]) = read + inflight[c].award
            /\ XpOf(user_profile[u]) > read =>
                 XpOf(user_profile'[u]) < XpOf(user_profile[u]) + inflight[c].award
    ]_vars

\* C20 witness: both requests are answered, a task is completed and a review
\* is recorded, and the user holds 20 xp instead of 20 + 15
C20_Witness ==
  /\ \A c \in Connections : inflight[c] = Null
  /\ resp.op = "task-update" /\ resp.status = 200
  /\ \E id \in DOMAIN task : task[id].completed
  /\ \E id \in DOMAIN review : Len(review[id].completedReviews) = 1
  /\ user_profile["u1"].xp = 20

----------------------------------------------------------------------------
(* Properties of authentication, checked under SpecAuth *)

\* C21: every route other than signup authenticates the caller first: a
\* request whose token is not accepted is answered 401 and the key-value
\* store is left as it was.
C21_AuthFirst ==
  [][(/\ now' = now
      /\ resp'.op \notin {"none", "signup"}
      /\ resp'.user \notin authUsers) =>
       /\ resp'.status = 401
       /\ UNCHANGED <<user_profile, user_routine, study_record, goal, task,
                      review, document>>
    ]_vars

\* C21 witness: a caller who never signed up asked to log a study session
\* while another user's records were stored, and was answered 401
C21_Witness ==
  /\ resp.op = "study-record" /\ resp.status = 401
  /\ resp.user \notin authUsers
  /\ study_record # <<>>
  /\ user_profile[resp.user] = Null

\* the lastStudyDate of a stored profile
LastStudyDateOf(p) == IF p = Null THEN Null ELSE p.lastStudyDate

\* C22: task completion, goal completion, review completion and routine
\* creation have no streak effect: PUT /task/:id, PUT /goal/:id, POST
\* /review-complete/:id and POST /routine leave every profile's streak and
\* lastStudyDate as they were.
C22_NoStreakEffect ==
  [][(/\ now' = now
      /\ resp'.op \in {"task-update", "goal-update", "review-complete", "routine"}) =>
       \A u \in Users :
         /\ StreakOf(user_profile'[u]) = StreakOf(user_profile[u])
         /\ LastStudyDateOf(user_profile'[u]) = LastStudyDateOf(user_profile[u])
    ]_vars

\* C22 witness: a user with a streak of 1 completed a goal and was paid for
\* it; the streak is still 1
C22_Witness ==
  /\ resp.op = "goal-update" /\ resp.status = 200 /\ resp.goal.completed
  /\ user_profile[resp.user].streak = 1
  /\ user_profile[resp.user].lastStudyDate # Null
  /\ user_profile[resp.user].xp >= 100

----------------------------------------------------------------------------
(* Properties of App, checked under SpecApp *)

\* C28: whenever the Dashboard is rendered, the profile it is given was
\* fetched with the token of the current session.
C28_ProfileOfCurrentSession ==
  Screen = "dashboard" => appProfile.token = session.user

\* C29: the onboarding wizard is shown only to a signed-in user whose stored
\* profile has onboardingComplete = false.
C29_OnboardingOnlyWhenIncomplete ==
  Screen = "onboarding" =>
    /\ session # Null
    /\ user_profile[session.user] # Null
    /\ ~user_profile[session.user].onboardingComplete

----------------------------------------------------------------------------
(* Properties of GoalsSectionFixed, checked under SpecQuickGoals *)

\* a goal of the list went from not completed to completed
QuickGoalCompleted ==
  /\ Len(goals') = Len(goals)
  /\ \E i \in 1..Len(goals) : ~goals[i].completed /\ goals'[i].completed

\* C23: completing a goal in GoalsSectionFixed (toggleComplete on an
\* incomplete goal, or updateProgress reaching 100) adds 50 xp to the stored
\* profile of the signed-in user, which the following refresh then shows.
C23_QuickGoalCredits50 ==
  [][QuickGoalCompleted =>
       XpOf(user_profile'[session.user]) = XpOf(user_profile[session.user]) + 50
    ]_vars

\* the list without its i-th element
RemoveAt(list, i) == SubSeq(list, 1, i - 1) \o SubSeq(list, i + 1, Len(list))

\* C30: deleteGoal, toggleComplete and updateProgress affect exactly one goal
\* of the list: a step that changes the list adds one goal, changes one goal
\* in place, or removes one goal, and leaves every other goal as it was.
C30_OnlySelectedGoal ==
  [][goals' # goals =>
       \/ Len(goals') = Len(goals) + 1 /\ SubSeq(goals', 1, Len(goals)) = goals
       \/ /\ Len(goals') = Len(goals)
          /\ Cardinality({i \in 1..Len(goals) : goals'[i] # goals[i]}) = 1
       \/ \E i \in 1..Len(goals) : goals' = RemoveAt(goals, i)
    ]_vars

----------------------------------------------------------------------------
(* Properties of TasksSection, checked under SpecTasksSection *)

\* a task shown as pending was marked complete in the task list
TaskMarkedComplete ==
  \E id \in DOMAIN localStorage' :
    /\ localStorage'[id].completed
    /\ id \notin DOMAIN localStorage \/ ~localStorage[id].completed

\* C24: marking a pending task complete in the task list adds 20 xp to the
\* stored profile of the signed-in user.
C24_TaskListCredits20 ==
  [][TaskMarkedComplete =>
       XpOf(user_profile'[session.user]) = XpOf(user_profile[session.user]) + 20
    ]_vars

\* the client ids of the tasks of a list
TaskIds(list) == {list[i].id : i \in 1..Len(list)}

\* C26: a task deleted in the task list is gone for good: when a task leaves
\* the list, the server stores no task of the user with its id, so that no
\* later fetch of the user's tasks brings it back.
C26_DeletedTaskIsGone ==
  [][\A id \in TaskIds(tasks) \ TaskIds(tasks') :
       id \notin TaskIds(FetchedTasks(session.user)')
    ]_vars

----------------------------------------------------------------------------
(* Properties of the onboarding wizard, checked under SpecWizard *)

\* C25: the wizard never submits a routine that has tuitions and no tuition
\* day: a POST /routine request of the wizard with numberOfTuitions > 0 has at
\* least one day in tuitionDays.
C25_TuitionDaysRequired ==
  (wizard # Null /\ wizard.request # Null /\ wizard.request.numberOfTuitions > 0)
    => wizard.request.tuitionDays # {}

----------------------------------------------------------------------------
(* Ownership of stored records, checked under SpecOwner *)

\* every value of the store carries the user id of its key
OwnedByKey(store) == \A k \in DOMAIN store : store[k].userId = k[1]

\* C27: every stored goal, task and study record has userId equal to the
\* authenticated user that created it (the user id in its key), whatever
\* fields the request body contains.
C27_UserIdIsCreator ==
  OwnedByKey(goal) /\ OwnedByKey(task) /\ OwnedByKey(study_record)

====
